---- MODULE Spec2Model ----
(***************************************************************************)
(* latex-fast-compile: the incremental recompilation pipeline.             *)
(*                                                                         *)
(* The model follows the newest version of the program (the one with the   *)
(* xelatex switch and the isCompiling flag).  Goroutines are processes:    *)
(* process 0 is main(), processes 1..MaxTimers are the goroutines that     *)
(* time.AfterFunc starts to run recompile(), the file watcher goroutine    *)
(* handles one event per step, and mainEnd() can be run by main (deferred) *)
(* and by the signal goroutine of catchCtrlC().  The external compiler is  *)
(* opaque: an invocation starts, and later ends with success or failure.   *)
(*                                                                         *)
(* isCompiling is one machine word written by the watcher goroutine (true) *)
(* and by the goroutine of the cycle in flight (false) without             *)
(* synchronisation.  The builds of the Go toolchain keep a single word     *)
(* coherent, so the flag is modelled as one variable read and written in   *)
(* single steps.                                                           *)
(***************************************************************************)
EXTENDS Integers, Sequences, FiniteSets, TLC

(***************************************************************************)
(* Bounds of the model.                                                    *)
(***************************************************************************)
\* number of slots for goroutines started by time.AfterFunc
MaxTimers == 2
\* number of writes the editor makes to the source file in one run
MaxWrites == 2
\* number of events the watcher's channel holds before the editor must wait
MaxQueue == 1
\* largest value of --compiles-at-start
MaxCompilesAtStart == 2

(***************************************************************************)
(* Program constants.                                                      *)
(***************************************************************************)
infoNo == 0
infoErrors == 1
infoErrorsAndLog == 2
infoActions == 3
infoDebug == 4

\* strings.Count(xeFirstLine, "\n")
xeFirstLineNewlines == 1

\* contents are sequences; these two are not texts
Absent == <<"absent">>
NoText == <<"notext">>

(***************************************************************************)
(* Texts.  A source text is a sequence of lines.  "p" and "q" are preamble *)
(* lines with their newline, "f" and "g" preamble lines that name fontspec *)
(* or polyglossia, with their newline, and "M" a line the split pattern         *)
(* matches; after the last one comes the rest of the document.  "x1" and "x2" are the  *)
(* two lines of xeFirstLine, "dump" is \dump, "%&" the format line of the  *)
(* body and "nl" one newline of padding.                                   *)
(***************************************************************************)
SourceTexts ==
  { <<>>, <<"p">>, <<"M">>, <<"p", "M">>, <<"f", "M">>, <<"f", "f", "M">>,
    <<"p", "M", "p", "M">> }

\* the texts the editor saves during a watch session
EditorTexts ==
  { <<>>, <<"p">>, <<"p", "M">>, <<"f", "f", "M">> }

RECURSIVE FindIndex(_, _)
\* reSplit.FindIndex: the position of the first match, 0 when there is none
FindIndex(text, from) ==
  IF from > Len(text) THEN 0
  ELSE IF text[from] = "M" THEN from
  ELSE FindIndex(text, from + 1)

\* strings.Count(s, "\n")
CountNewlines(text) ==
  Cardinality({k \in 1..Len(text) :
                 text[k] \in {"p", "q", "f", "g", "x1", "x2", "nl"}})

\* strings.Contains(line, "fontspec") || strings.Contains(line, "polyglossia")
IsFontLine(line) == line \in {"f", "g"}

KeepLines(text) == SelectSeq(text, LAMBDA l : ~IsFontLine(l))
MoveLines(text) == SelectSeq(text, IsFontLine)

\* an adapter that does not test the engine
adaptPreambleAnyEngine(xe, preamble) ==
  << <<"x1", "x2">> \o KeepLines(preamble), MoveLines(preamble) >>

\* adaptPreamble: <<newPreamble, addToBody>>
adaptPreamble(xe, preamble) ==
  IF ~xe THEN <<preamble, <<>>>>
  ELSE << <<"x1", "x2">> \o KeepLines(preamble), MoveLines(preamble) >>

\* numLinesInPreamble before the clamp
LinesInPreamble(xe, newPreamble, addToBody) ==
  CountNewlines(newPreamble) - CountNewlines(addToBody)
    - (IF xe THEN xeFirstLineNewlines ELSE 0)

\* numLinesInPreamble as given to strings.Repeat
PadLines(xe, newPreamble, addToBody) ==
  IF LinesInPreamble(xe, newPreamble, addToBody) = 0 THEN 1
  ELSE LinesInPreamble(xe, newPreamble, addToBody)

\* strings.Repeat("\n", n), defined for n >= 0 (it panics below 0)
RECURSIVE Repeat(_)
Repeat(n) == IF n <= 0 THEN <<>> ELSE <<"nl">> \o Repeat(n - 1)

(***************************************************************************)
(* Names.  A name is a sequence of characters; "E" stands for an accented  *)
(* e and " " for a space.                                                  *)
(***************************************************************************)
\* norm.NFD, RemoveFunc(isMn), norm.NFC on one character
Unaccent(c) == IF c = "E" THEN "e" ELSE c

RECURSIVE normalizeName(_)
normalizeName(name) ==
  IF name = <<>> THEN <<>>
  ELSE IF Head(name) = " " THEN normalizeName(Tail(name))
  ELSE <<Unaccent(Head(name))>> \o normalizeName(Tail(name))

\* filepath.Join(tempFolderName, inBase)
JoinPath(folder, base) == folder \o <<"/">> \o base

(***************************************************************************)
(* State.                                                                  *)
(***************************************************************************)
VARIABLES
  \* flags and globals (the var block of the program)
  mustBuildFormat, mustCompileAll, mustNotSync, mustNoWatch, mustUseXe,
  numCompilesAtStart, infoLevel, mustClear, texDistro,
  inBaseOriginal, inBase, outBase,
  \* the argument lists of the compiler: precompileOptions as a list;
  \* compileOptions as the list the slice shows and the spare elements of
  \* its array behind it, which append writes
  precompileOptions, compileOptions,
  isCompiling, isRecompiling, err,
  \* the command line: the number of positional arguments and the value of
  \* --info
  args,
  \* the file system: file name -> content, or Absent
  fs,
  \* goroutines: 0 is main, 1..MaxTimers run recompile; i is the loop
  \* variable of main, local holds the local variables of splitTeX and
  \* compile
  pc, i, local,
  \* the watcher: registered or not, and the events in its channel
  watching, events,
  \* mainEnd, run by main or by the signal goroutine
  endPc, recovered, exitStatus,
  \* the environment: the editor's writes, and whether the disk may fail
  nWrites, faulty,
  \* history: what each goroutine did in its current cycle, the arguments
  \* and effect of the call of precompile, and counts of the write events
  \* the watcher received
  trace, preCall, hist

setVars == <<mustCompileAll, mustNotSync, mustNoWatch, mustUseXe,
             numCompilesAtStart, infoLevel, mustClear, texDistro,
             inBaseOriginal, inBase, outBase, faulty, args,
             precompileOptions>>
cfgVars == <<setVars, compileOptions>>
flagVars == <<isCompiling, isRecompiling>>
procVars == <<pc, i, local>>
endVars == <<endPc, recovered, exitStatus>>
watchVars == <<watching, events>>
vars == <<cfgVars, mustBuildFormat, flagVars, err, fs, procVars, watchVars,
          endVars, nWrites, trace, preCall, hist>>

Procs == 0..MaxTimers
Timers == 1..MaxTimers
Enders == {"main", "sig"}
Running == "running"

\* the local variables of a goroutine that is not in splitTeX or compile
NoLocal == [ok |-> TRUE, attempt |-> 0, texdata |-> NoText, cerr |-> "nil",
            input |-> <<"none">>, argv |-> <<>>]

\* the results a file operation can have in this run
DiskResults == IF faulty THEN BOOLEAN ELSE {TRUE}

(***************************************************************************)
(* Files.                                                                  *)
(***************************************************************************)
Exts == {"tex", "preamble.tex", "body.tex", "fmt", "pdf", "synctex"}
File(base, ext) == <<base, ext>>

\* the content of a file the compiler wrote
Built == <<"built">>

\* --aux-extensions without fmt
auxExtensionsNoFmt == {}

\* the extensions of --aux-extensions (its default) that the model has
auxExtensions == {"fmt"}

isFileMissing(filename) == fs[filename] = Absent

sourceName == File(inBaseOriginal, "tex")
preambleName == File(inBase, "preamble.tex")
bodyName == File(inBase, "body.tex")
formatName == File(outBase, "fmt")

\* a compile that is always given the body
compileNameBody == File(inBase, "body.tex")

\* lines 316-320: the file the compile is given, after the format
compileName == IF mustCompileAll THEN File(inBase, "tex") ELSE bodyName

\* where the compiler puts the pdf and the synctex: MiKTeX's -aux-directory
\* moves only the auxiliary files, -output-directory moves everything
CompilerOutBase ==
  IF inBase = inBaseOriginal /\ texDistro = "miktex" THEN inBase ELSE outBase

\* lines 174, 263, 302-308 and 316: the arguments of the precompile; "input"
\* stands for the format and the preamble file
PrecompileOptionsAtStart ==
  <<"-interaction=batchmode", "-halt-on-error", "-ini">>
    \o (IF outBase # inBase THEN <<"-output-directory">> ELSE <<>>)
    \o <<"-jobname", "input">>

\* lines 175, 258-262, 302-308 and 317-321: the arguments of a final pass;
\* "input" stands for the format and the file of compileName
CompileOptionsAtStart ==
  <<"-interaction=batchmode", "-halt-on-error">>
    \o (IF mustNotSync THEN <<>> ELSE <<"--synctex=-1">>)
    \o (IF outBase # inBase THEN <<"-output-directory">> ELSE <<>>)
    \o <<"-jobname", "input">>

\* the numbers of spare elements the array of compileOptions can have
\* after the appends of SetParameters: it depends on the growth of append
SpareCapacities == {0, 1}

\* a draft pass that assigns the result of its append to compileOptions
appendDraftAssigned(opts) ==
  [list |-> opts.list \o <<"-draftmode">>, spare |-> <<>>]

\* line 613: compileOptions after append(compileOptions, "-draftmode").
\* The result goes to draftOptions; compileOptions keeps its length, and
\* with spare capacity the new element is written into its array
appendDraft(opts) ==
  [list |-> opts.list,
   spare |-> IF opts.spare = <<>> THEN <<>>
             ELSE <<"-draftmode">> \o Tail(opts.spare)]

\* line 613: the value of draftOptions
draftOptions(opts) == opts.list \o <<"-draftmode">>

(***************************************************************************)
(* Initial states: the flags as SetParameters leaves them, over a chosen   *)
(* set of command lines, and the files the user has.                       *)
(***************************************************************************)
UserNames == { <<"E", " ", "d">> }
TempFolders == { <<>> }
Distros == { "texlive" }
InfoLevels == { infoActions }
ClearFlags == { "auto" }

\* the names infoLevelFromString knows; "bogus" stands for any other value
InfoNames == {"no", "errors", "errors+log", "actions", "debug"}
CommandLines == [narg : 0..2, info : {"actions", "bogus"}]

InitFiles(orig, inb, outb) ==
  { [n \in {orig, inb, outb} \X Exts |->
       IF n = File(orig, "tex") THEN text
       ELSE IF n = File(outb, "fmt") THEN format
       ELSE Absent] :
    text \in SourceTexts \cup {Absent}, format \in {Absent, Built} }

\* lines 250-255, 297-312 and 324 of SetParameters
SetParameters(mustNoNormalize, tempFolderName, clearFlag) ==
  /\ inBase = IF mustNoNormalize THEN inBaseOriginal
              ELSE normalizeName(inBaseOriginal)
  /\ outBase = IF Len(tempFolderName) > 0
               THEN JoinPath(IF mustNoNormalize THEN tempFolderName
                             ELSE normalizeName(tempFolderName), inBase)
               ELSE inBase
  /\ mustClear = ((infoLevel < infoDebug)
                   /\ (clearFlag = "yes" \/ (clearFlag = "auto" /\ ~mustNoWatch)))

Init ==
  /\ mustBuildFormat \in BOOLEAN
  /\ mustCompileAll \in BOOLEAN
  /\ mustNotSync \in {FALSE}
  /\ mustNoWatch \in BOOLEAN
  /\ mustUseXe \in BOOLEAN
  /\ numCompilesAtStart \in 0..MaxCompilesAtStart
  /\ infoLevel \in InfoLevels
  /\ args \in CommandLines
  /\ texDistro \in Distros
  /\ inBaseOriginal \in UserNames
  /\ \E mustNoNormalize \in BOOLEAN, tempFolderName \in TempFolders,
        clearFlag \in ClearFlags :
       SetParameters(mustNoNormalize, tempFolderName, clearFlag)
  /\ precompileOptions = PrecompileOptionsAtStart
  \* the spare capacity matters to append only, which only a draft pass
  \* calls
  /\ \E cap \in SpareCapacities :
       /\ numCompilesAtStart < 2 => cap = 0
       /\ compileOptions = [list |-> CompileOptionsAtStart,
                            spare |-> [k \in 1..cap |-> ""]]
  /\ isCompiling = FALSE
  /\ isRecompiling = FALSE
  /\ err = "nil"
  /\ fs \in InitFiles(inBaseOriginal, inBase, outBase)
  /\ pc = [p \in Procs |-> IF p = 0 THEN "SetParameters" ELSE "free"]
  /\ i = 0
  /\ local = [p \in Procs |-> NoLocal]
  /\ watching = FALSE
  /\ events = <<>>
  /\ endPc = [e \in Enders |-> "idle"]
  /\ recovered = FALSE
  /\ exitStatus = Running
  /\ nWrites = 0
  /\ faulty \in BOOLEAN
  /\ trace = [p \in Procs |-> <<>>]
  /\ preCall = [called |-> FALSE]
  /\ hist = [cycles |-> 0, clear |-> 0, set |-> 0, burst |-> 0, burstCycles |-> 0,
             split |-> <<>>]
  \* the watch sessions explored start from the default number of compiles,
  \* from a source that splits and on a disk that does not fail; those with
  \* --precompile use pdflatex, the format file of an earlier run and no
  \* --skip-fmt
  /\ ~mustNoWatch =>
       /\ numCompilesAtStart = 1
       /\ mustBuildFormat =>
            ~mustCompileAll /\ ~mustUseXe /\ fs[formatName] = Built
       /\ fs[sourceName] = <<"p", "M">>
       /\ ~faulty

(***************************************************************************)
(* check(e) with e # nil: the error is printed, and the goroutine panics   *)
(* unless isCompiling is set.  A panic of main runs the deferred mainEnd,  *)
(* which recovers; a panic of any other goroutine ends the process with    *)
(* status 2 and runs no deferred call of main.                             *)
(***************************************************************************)
\* check without the test of line 68: every error panics
checkPanicsAlways == TRUE

checkPanics == ~isCompiling

Alive == exitStatus = Running

Panic(p) ==
  IF p = 0
  THEN /\ pc' = [pc EXCEPT ![0] = "mainEnd"]
       /\ recovered' = TRUE
       /\ endPc' = [endPc EXCEPT !["main"] = "clear"]
       /\ exitStatus' = exitStatus
  ELSE /\ pc' = [pc EXCEPT ![p] = "crashed"]
       /\ exitStatus' = "2"
       /\ UNCHANGED <<recovered, endPc>>

\* the process ends with status: its goroutines, their variables, the
\* watcher and its channel end with it
ProcessEnds(status) ==
  /\ exitStatus' = status
  /\ pc' = [p \in Procs |-> "exited"]
  /\ local' = [p \in Procs |-> NoLocal]
  /\ trace' = [p \in Procs |-> <<>>]
  /\ i' = 0
  /\ isCompiling' = FALSE
  /\ isRecompiling' = FALSE
  /\ err' = "nil"
  /\ watching' = FALSE
  /\ events' = <<>>

\* one step of goroutine p, whose history becomes tr: it panics, or it
\* goes on at label with the local variables loc
Step(p, panics, label, loc, tr) ==
  IF panics
  THEN /\ Panic(p)
       /\ local' = local
       /\ trace' = [trace EXCEPT ![p] = Append(tr, "panic")]
  ELSE /\ pc' = [pc EXCEPT ![p] = label]
       /\ local' = [local EXCEPT ![p] = loc]
       /\ trace' = [trace EXCEPT ![p] = tr]
       /\ UNCHANGED endVars

(***************************************************************************)
(* SetParameters: the checks of the command line                           *)
(***************************************************************************)
\* SetParameters without its checks
configErrorIgnored(a) == FALSE

\* lines 86-103 and 242-247: the value of --info is not a known level, or
\* the number of positional arguments is not one
configError(a) == a.info \notin InfoNames \/ a.narg # 1

\* lines 224 and 242-247: the error goes to check, which panics
SetParametersCheck ==
  /\ Alive /\ pc[0] = "SetParameters"
  /\ Step(0, configError(args) /\ checkPanics, "splitTeX", NoLocal,
          IF configError(args) THEN <<"configError">> ELSE <<>>)
  /\ UNCHANGED <<cfgVars, mustBuildFormat, flagVars, err, fs, watchVars,
                 nWrites, preCall, i, hist>>

(***************************************************************************)
(* splitTeX                                                                *)
(***************************************************************************)
\* where splitTeX returns to: main ignores the result, recompile tests it
AfterSplit(p) == IF p = 0 THEN "precompile" ELSE "recompileIf"

\* the return of splitTeX with result
SplitReturn(p, panics, result) ==
  Step(p, panics, AfterSplit(p), [NoLocal EXCEPT !.ok = result],
       Append(trace[p], IF result THEN "splitOk" ELSE "splitFail"))

\* copyFile: the deferred closure is declared before the local err of
\* the function, so the result it gives is decided by the global err, not
\* by what happened to the copy
copyFileOk == err = "nil"

\* lines 483-496: the missing-file check, the copy of the source under the
\* normalized name, and the return when no split is needed
SplitBegin(p) ==
  /\ Alive /\ pc[p] = "splitTeX"
  /\ UNCHANGED <<cfgVars, mustBuildFormat, flagVars, err, watchVars, nWrites,
                 preCall, i, hist>>
  /\ LET missing == isFileMissing(sourceName)
         copies == mustCompileAll /\ inBaseOriginal # inBase
         result == IF copies THEN copyFileOk ELSE TRUE
     IN \E copied \in (IF missing THEN {FALSE} ELSE DiskResults) :
          /\ fs' = IF copies /\ copied /\ ~(missing /\ checkPanics)
                   THEN [fs EXCEPT ![File(inBase, "tex")] = fs[sourceName]]
                   ELSE fs
          /\ IF missing /\ checkPanics
             THEN Step(p, TRUE, "", NoLocal, Append(trace[p], "splitFail"))
             ELSE IF ~mustBuildFormat /\ mustCompileAll
             THEN SplitReturn(p, ~result /\ checkPanics, result)
             ELSE Step(p, ~result /\ checkPanics, "readFile",
                       [NoLocal EXCEPT !.ok = result], trace[p])

\* a read loop that goes on as long as the file is empty
readAgainAlways(attempt) == TRUE

\* lines 499 and 503: an empty read is followed by another read only in the
\* first turn of the loop
readAgain(attempt) == attempt = 0

\* lines 499-513: one turn of the read loop
SplitRead(p) ==
  /\ Alive /\ pc[p] = "readFile"
  /\ UNCHANGED <<cfgVars, mustBuildFormat, flagVars, fs, watchVars, nWrites,
                 preCall, i, hist>>
  /\ LET missing == isFileMissing(sourceName)
         data == IF missing THEN <<>> ELSE fs[sourceName]
     IN /\ err' = IF missing THEN "error" ELSE "nil"
        /\ IF missing /\ checkPanics
           THEN Step(p, TRUE, "", NoLocal, Append(trace[p], "splitFail"))
           ELSE IF Len(data) > 0
           THEN Step(p, FALSE, "writePreamble",
                     [local[p] EXCEPT !.texdata = data], trace[p])
           ELSE IF readAgain(local[p].attempt)
           THEN Step(p, FALSE, "readFile",
                     [local[p] EXCEPT !.attempt = @ + 1], trace[p])
           ELSE SplitReturn(p, checkPanics, FALSE)

\* a body that starts after the line of the match
TexBodyAfterMatch(p) ==
  SubSeq(local[p].texdata, FindIndex(local[p].texdata, 1) + 1,
         Len(local[p].texdata))

\* a body that is added to the end of the body file there is
TexBodyAppended(p) ==
  (IF isFileMissing(bodyName) THEN <<>> ELSE fs[bodyName])
    \o SubSeq(local[p].texdata, FindIndex(local[p].texdata, 1),
              Len(local[p].texdata))

\* the two parts of the source and the adapted preamble, from texdata
SplitAt(p) == FindIndex(local[p].texdata, 1)
TexPreamble(p) == SubSeq(local[p].texdata, 1, SplitAt(p) - 1)
TexBody(p) == SubSeq(local[p].texdata, SplitAt(p), Len(local[p].texdata))
Adapted(p) == adaptPreamble(mustUseXe, TexPreamble(p))

\* lines 515-529: find the split point and write the preamble file
SplitPreamble(p) ==
  /\ Alive /\ pc[p] = "writePreamble"
  /\ UNCHANGED <<cfgVars, mustBuildFormat, flagVars, watchVars, nWrites,
                 preCall, i, hist>>
  /\ IF SplitAt(p) = 0
     THEN /\ UNCHANGED <<fs, err>>
          /\ SplitReturn(p, checkPanics, FALSE)
     ELSE \E written \in DiskResults :
            /\ err' = IF written THEN "nil" ELSE "error"
            /\ fs' = IF written
                     THEN [fs EXCEPT ![preambleName] = Adapted(p)[1] \o <<"dump">>]
                     ELSE fs
            /\ Step(p, ~written /\ checkPanics, "writeBody",
                    [local[p] EXCEPT !.ok = written],
                    IF written THEN trace[p] ELSE Append(trace[p], "splitFail"))

\* lines 535-551: the padding and the body file
SplitBody(p) ==
  /\ Alive /\ pc[p] = "writeBody"
  /\ UNCHANGED <<cfgVars, mustBuildFormat, flagVars, watchVars, nWrites,
                 preCall, i>>
  /\ LET n == PadLines(mustUseXe, Adapted(p)[1], Adapted(p)[2])
     IN IF n < 0
        THEN \* strings.Repeat panics, whatever isCompiling is
             /\ UNCHANGED <<fs, err, hist>>
             /\ Step(p, TRUE, "", NoLocal, trace[p])
        ELSE \E written \in DiskResults :
               /\ err' = IF written THEN "nil" ELSE "error"
               /\ fs' = IF written
                        THEN [fs EXCEPT ![bodyName] =
                                <<"%&">> \o Repeat(n) \o Adapted(p)[2] \o TexBody(p)]
                        ELSE fs
               \* history: the source and the two files of the split at start
               /\ hist' = IF p = 0 /\ written /\ local[p].ok
                          THEN [hist EXCEPT !.split =
                                  <<local[p].texdata, fs'[preambleName],
                                    fs'[bodyName]>>]
                          ELSE hist
               /\ SplitReturn(p, ~written /\ checkPanics, local[p].ok /\ written)

(***************************************************************************)
(* run: one invocation of the external compiler, from its start to its     *)
(* end.  The log is read when the info level asks for it, and a log that   *)
(* cannot be read goes through check.                                      *)
(***************************************************************************)
RunOutcomes == {"nil", "error"}

ReadsLog(result) ==
  /\ infoLevel = infoDebug \/ (infoLevel >= infoErrors /\ result # "nil")
  /\ infoLevel >= infoErrorsAndLog

(***************************************************************************)
(* precompile                                                              *)
(***************************************************************************)
\* precompile without line 586: the flag keeps its value
mustBuildFormatKept(force) == force

\* line 586: the value precompile leaves in mustBuildFormat
mustBuildFormatAfter(force) == FALSE

\* line 581 without the test of the file: only --precompile builds
mustPrecompileForceOnly(force, skipAll, missing) == force

\* line 581 without the test of mustCompileAll
mustPrecompileNoSkip(force, skipAll, missing) == force \/ missing

\* line 581 without the test of mustBuildFormat
mustPrecompileMissingOnly(force, skipAll, missing) == ~skipAll /\ missing

\* line 581: build the format or not
mustPrecompile(force, skipAll, missing) == force \/ (~skipAll /\ missing)

\* lines 581-582: the call of precompile up to the start of the compiler
PrecompileCall ==
  /\ Alive /\ pc[0] = "precompile"
  /\ UNCHANGED <<cfgVars, flagVars, err, fs, watchVars, nWrites, i, hist>>
  /\ LET build == mustPrecompile(mustBuildFormat, mustCompileAll,
                                 isFileMissing(formatName))
     IN /\ preCall' = [called |-> TRUE, force |-> mustBuildFormat,
                       skipAll |-> mustCompileAll,
                       missing |-> isFileMissing(formatName),
                       invocations |-> IF build THEN 1 ELSE 0,
                       argv |-> IF build THEN precompileOptions ELSE <<>>,
                       returned |-> ~build, result |-> "nil"]
        /\ mustBuildFormat' = IF build THEN mustBuildFormat
                              ELSE mustBuildFormatAfter(mustBuildFormat)
        /\ Step(0, FALSE, IF build THEN "precompileRun" ELSE "loop", NoLocal,
                IF build THEN Append(trace[0], "preStart") ELSE trace[0])

\* main with the result of precompile dropped, as the versions before the
\* error returns did
precompileUnchecked(result) == FALSE

\* lines 705-706: main gives the result of precompile to check
precompileChecked(result) == result # "nil"

\* lines 582-587 and 705-706: the compiler ends, precompile returns and
\* main checks the result; when run panics while it reads the log,
\* precompile does not return
PrecompileEnd ==
  /\ Alive /\ pc[0] = "precompileRun"
  /\ UNCHANGED <<cfgVars, flagVars, watchVars, nWrites, i, hist>>
  /\ \E result \in RunOutcomes, logRead \in DiskResults :
       LET runPanics == ReadsLog(result) /\ ~logRead /\ checkPanics
       IN /\ fs' = IF result = "nil" THEN [fs EXCEPT ![formatName] = Built] ELSE fs
          /\ mustBuildFormat' = IF runPanics THEN mustBuildFormat
                                ELSE mustBuildFormatAfter(mustBuildFormat)
          /\ preCall' = [preCall EXCEPT !.returned = ~runPanics,
                                        !.result = result]
          /\ err' = IF runPanics THEN err ELSE result
          /\ Step(0, runPanics \/ (precompileChecked(result) /\ checkPanics),
                  "loop", NoLocal, Append(trace[0], "preEnd"))

(***************************************************************************)
(* compile                                                                 *)
(***************************************************************************)
\* a loop at start whose last pass is a draft too
DraftEveryPass(p) == p = 0 /\ i < numCompilesAtStart

\* line 710: only the last compile at start is not a draft; recompile
\* always calls compile(false)
Draft(p) == p = 0 /\ i < numCompilesAtStart - 1

\* lines 602-617: the call of compile up to the start of the compiler
CompileStart(p) ==
  /\ Alive /\ pc[p] = "compile"
  /\ compileOptions' = IF Draft(p) THEN appendDraft(compileOptions)
                       ELSE compileOptions
  /\ Step(p, FALSE, "compileRun",
          [NoLocal EXCEPT !.input = compileName,
                          !.argv = IF Draft(p) THEN draftOptions(compileOptions)
                                   ELSE compileOptions.list],
          Append(trace[p], IF Draft(p) THEN "draftStart" ELSE "finalStart"))
  /\ UNCHANGED <<setVars, mustBuildFormat, flagVars, err, fs, watchVars,
                 nWrites, preCall, i, hist>>

\* what a successful pass of the compiler leaves: a draft pass writes no
\* output, a final pass the pdf and (unless --no-synctex) the synctex,
\* which refers to the file that was compiled
CompilerOutput(p) ==
  IF Draft(p) THEN fs
  ELSE [fs EXCEPT ![File(CompilerOutBase, "pdf")] = Built,
                  ![File(CompilerOutBase, "synctex")] =
                     IF mustNotSync THEN @ ELSE <<"internal">>]

\* lines 614-620: the compiler ends
CompileRunEnd(p) ==
  /\ Alive /\ pc[p] = "compileRun"
  /\ UNCHANGED <<cfgVars, mustBuildFormat, flagVars, err, watchVars, nWrites,
                 preCall, i, hist>>
  /\ \E result \in RunOutcomes, logRead \in DiskResults :
       /\ fs' = IF result = "nil" THEN CompilerOutput(p) ELSE fs
       /\ Step(p, ReadsLog(result) /\ ~logRead /\ checkPanics,
               IF result = "nil" THEN "relocate" ELSE "compileEnd",
               [NoLocal EXCEPT !.cerr = result],
               Append(trace[p], IF result = "nil" THEN "compileEnd"
                                ELSE "compileFail"))

\* a compile that leaves its output where the compiler wrote it
mustRelocateNever(p) == FALSE

\* a compile that moves its output after every pass, whatever the names
mustRelocateAlways(p) == TRUE

\* line 622
mustRelocate(p) ==
  /\ ~Draft(p)
  /\ inBaseOriginal # outBase
  /\ (texDistro # "miktex" \/ inBaseOriginal # inBase)

\* lines 622-634: copy the pdf and move the synctex to the user's name
Relocate(p) ==
  /\ Alive /\ pc[p] = "relocate"
  /\ UNCHANGED <<cfgVars, mustBuildFormat, flagVars, err, watchVars, nWrites,
                 preCall, i, hist>>
  /\ IF ~mustRelocate(p)
     THEN /\ fs' = fs
          /\ Step(p, FALSE, "modifySync", local[p], trace[p])
     ELSE \E copied \in DiskResults, renamed \in DiskResults :
            LET outPdf == File(outBase, "pdf")
                outSync == File(outBase, "synctex")
                hasPdf == ~isFileMissing(outPdf)
                hasSync == ~mustNotSync /\ ~isFileMissing(outSync)
                fs1 == IF hasPdf /\ copied
                       THEN [fs EXCEPT ![File(inBaseOriginal, "pdf")] = fs[outPdf]]
                       ELSE fs
                fs2 == IF hasPdf /\ copyFileOk
                       THEN [fs1 EXCEPT ![outPdf] = Absent]
                       ELSE fs1
                fs3 == IF hasSync /\ renamed
                       THEN [fs2 EXCEPT ![File(inBaseOriginal, "synctex")] = fs2[outSync],
                                        ![outSync] = Absent]
                       ELSE fs2
            IN /\ fs' = fs3
               /\ Step(p, checkPanics /\ ((hasPdf /\ ~copyFileOk) \/ (hasSync /\ ~renamed)),
                       "modifySync", local[p],
                       Append(trace[p], "relocate") \o
                         (IF hasPdf /\ ~copyFileOk THEN <<"copyError">>
                          ELSE <<>>))

\* line 636
mustModifySync ==
  ~mustNotSync /\ (~mustCompileAll \/ (mustCompileAll /\ inBase # inBaseOriginal))

\* bytes.Replace(syncdata, inBase+ext, inBaseOriginal+".tex", 1)
ReplaceOnce(syncdata) ==
  IF \E k \in 1..Len(syncdata) : syncdata[k] = "internal"
  THEN LET k == CHOOSE k \in 1..Len(syncdata) :
                  /\ syncdata[k] = "internal"
                  /\ \A j \in 1..(k - 1) : syncdata[j] # "internal"
       IN [syncdata EXCEPT ![k] = "user"]
  ELSE syncdata

\* lines 636-647: rewrite the reference in the synctex of the user's name
ModifySync(p) ==
  /\ Alive /\ pc[p] = "modifySync"
  /\ UNCHANGED <<cfgVars, mustBuildFormat, flagVars, err, watchVars, nWrites,
                 preCall, i, hist>>
  /\ IF ~mustModifySync
     THEN /\ fs' = fs
          /\ Step(p, FALSE, "compileEnd", local[p], trace[p])
     ELSE \E written \in DiskResults :
            LET userSync == File(inBaseOriginal, "synctex")
                missing == isFileMissing(userSync)
                syncdata == IF missing THEN <<>> ELSE fs[userSync]
            IN /\ fs' = IF written
                        THEN [fs EXCEPT ![userSync] = ReplaceOnce(syncdata)]
                        ELSE fs
               /\ Step(p, checkPanics /\ (missing \/ ~written),
                       "compileEnd", local[p], trace[p])

\* a startup loop that goes on after a pass that failed
afterCompileNoBreak(cerr) == "loop"

\* lines 711-713: the break of the startup loop
afterCompile(cerr) == IF cerr # "nil" THEN "watch" ELSE "loop"

\* lines 591-598, deferred by compile, and the return to the caller:
\* lines 710-713 in main, line 657 in recompile
compileEnd(p) ==
  /\ Alive /\ pc[p] = "compileEnd"
  /\ isCompiling' = FALSE
  /\ err' = IF p = 0 THEN local[0].cerr ELSE err
  /\ i' = IF p = 0 /\ local[0].cerr = "nil" THEN i + 1 ELSE i
  /\ Step(p, FALSE,
          IF p # 0 THEN "recompileEnd"
          ELSE afterCompile(local[0].cerr),
          NoLocal, Append(trace[p], "clear"))
  /\ UNCHANGED <<cfgVars, mustBuildFormat, isRecompiling, fs, watchVars,
                 nWrites, preCall, hist>>

(***************************************************************************)
(* main                                                                    *)
(***************************************************************************)
\* lines 708-710: one turn of the loop of compiles at start
StartupLoop ==
  /\ Alive /\ pc[0] = "loop"
  /\ isCompiling' = IF i < numCompilesAtStart THEN TRUE ELSE isCompiling
  /\ Step(0, FALSE, IF i < numCompilesAtStart THEN "compile" ELSE "watch",
          NoLocal, trace[0])
  /\ UNCHANGED <<cfgVars, mustBuildFormat, isRecompiling, err, fs, watchVars,
                 nWrites, preCall, i, hist>>

\* the results fsnotify.NewWatcher and watcher.Add can have
WatcherResults == BOOLEAN

\* lines 716-763: main returns (and mainEnd runs) with --no-watch, or it
\* creates the watcher, starts its goroutine, adds the source file and
\* waits on a channel nobody writes
WatchStart ==
  /\ Alive /\ pc[0] = "watch"
  /\ UNCHANGED <<cfgVars, mustBuildFormat, flagVars, err, fs, events, nWrites,
                 preCall, i, hist>>
  /\ IF mustNoWatch
     THEN /\ pc' = [pc EXCEPT ![0] = "mainEnd"]
          /\ endPc' = [endPc EXCEPT !["main"] = "clear"]
          /\ UNCHANGED <<recovered, exitStatus, watching, local, trace>>
     ELSE \E created \in WatcherResults, added \in WatcherResults :
            /\ watching' = (created /\ added)
            /\ Step(0, (~created \/ ~added) /\ checkPanics, "waitDone",
                    NoLocal, <<>>)

(***************************************************************************)
(* The watcher goroutine and recompile                                     *)
(***************************************************************************)
FreeTimers == {p \in Timers : pc[p] = "free"}

\* line 738 without the guard: every write schedules a recompile
acceptsEveryWrite(compiling) == TRUE

\* line 738 with the guard only while no timer is pending: a write that
\* finds the flag set is remembered and served as soon as it can be
acceptsWriteLate(compiling) == ~compiling \/ isRecompiling

\* line 738 with the guard inverted
acceptsWriteInverted(compiling) == compiling

\* line 738: the guard of the watch loop
acceptsWrite(compiling) == ~compiling

\* a watcher that takes every event for a write
isAnyEvent(event) == TRUE

\* line 737: event.Op&fsnotify.Write == fsnotify.Write
isWriteEvent(event) == event = "Write"

\* line 760: the one path given to watcher.Add
watchedPaths == {File(inBaseOriginal, "tex")}

\* lines 733-749: one event of watcher.Events.  hist counts the cycles
\* scheduled, the writes received with isCompiling clear and set, and the
\* writes of the current burst (those received since the tool was last
\* without a pending timer) with the cycles they scheduled
WatchEvent ==
  /\ Alive /\ watching /\ events # <<>>
  /\ events' = Tail(events)
  /\ LET isWrite == isWriteEvent(Head(events))
         accepts == isWrite /\ acceptsWrite(isCompiling)
         pending == \E p \in Timers : pc[p] = "timer"
         one == IF accepts THEN 1 ELSE 0
     IN /\ IF accepts
           THEN /\ FreeTimers # {}
                /\ isCompiling' = TRUE
                /\ LET p == CHOOSE q \in FreeTimers : \A r \in FreeTimers : q <= r
                   IN pc' = [pc EXCEPT ![p] = "timer"]
           ELSE UNCHANGED <<isCompiling, pc>>
        /\ hist' = IF ~isWrite THEN hist
                   ELSE [cycles |-> hist.cycles + one,
                         clear |-> hist.clear + (IF isCompiling THEN 0 ELSE 1),
                         set |-> hist.set + (IF isCompiling THEN 1 ELSE 0),
                         burst |-> IF pending THEN hist.burst + 1 ELSE 1,
                         burstCycles |->
                           (IF pending THEN hist.burstCycles ELSE 0) + one,
                         split |-> hist.split]
  /\ UNCHANGED <<cfgVars, mustBuildFormat, isRecompiling, err, fs, watching,
                 nWrites, preCall, i, local, trace, endVars>>

\* lines 750-754: one error of watcher.Errors.  The err it is assigned to
\* is the local one of line 721, not the global.  The panic of check is in
\* the watcher goroutine, so the process ends without mainEnd; with
\* isCompiling set the error is only printed
WatchError ==
  /\ Alive /\ watching
  /\ IF checkPanics
     THEN /\ ProcessEnds("2")
          /\ UNCHANGED <<cfgVars, mustBuildFormat, fs, endPc, recovered,
                         nWrites, preCall, hist>>
     ELSE UNCHANGED vars

\* recompile without its call of splitTeX
recompileEntryNoSplit == "compile"

\* line 654: the first thing recompile does
recompileEntry == "splitTeX"

\* line 743: the timer fires and its goroutine calls recompile
TimerFire(p) ==
  /\ Alive /\ p \in Timers /\ pc[p] = "timer"
  /\ Step(p, FALSE, recompileEntry, NoLocal, <<>>)
  /\ UNCHANGED <<cfgVars, mustBuildFormat, flagVars, err, fs, watchVars,
                 nWrites, preCall, i, hist>>

\* line 654 without the test: recompile compiles whatever splitTeX gave
recompileCompilesAlways(splitOk) == TRUE

\* line 654: recompile compiles when splitTeX gave true
recompileCompiles(splitOk) == splitOk

\* lines 654-660: the test of the result of splitTeX
recompileIf(p) ==
  /\ Alive /\ p \in Timers /\ pc[p] = "recompileIf"
  /\ isRecompiling' = IF recompileCompiles(local[p].ok) THEN TRUE ELSE isRecompiling
  /\ isCompiling' = IF recompileCompiles(local[p].ok) THEN isCompiling ELSE FALSE
  /\ Step(p, FALSE, IF recompileCompiles(local[p].ok) THEN "compile" ELSE "done",
          NoLocal,
          IF recompileCompiles(local[p].ok) THEN trace[p]
          ELSE Append(trace[p], "clear"))
  /\ UNCHANGED <<cfgVars, mustBuildFormat, err, fs, watchVars, nWrites,
                 preCall, i, hist>>

\* line 657
recompileEnd(p) ==
  /\ Alive /\ p \in Timers /\ pc[p] = "recompileEnd"
  /\ isRecompiling' = FALSE
  /\ Step(p, FALSE, "done", NoLocal, trace[p])
  /\ UNCHANGED <<cfgVars, mustBuildFormat, isCompiling, err, fs, watchVars,
                 nWrites, preCall, i, hist>>

\* the goroutine of the timer ends
TimerExit(p) ==
  /\ Alive /\ p \in Timers /\ pc[p] = "done"
  /\ Step(p, FALSE, "free", NoLocal, <<>>)
  /\ UNCHANGED <<cfgVars, mustBuildFormat, flagVars, err, fs, watchVars,
                 nWrites, preCall, i, hist>>

(***************************************************************************)
(* mainEnd and catchCtrlC                                                  *)
(***************************************************************************)
\* lines 666-674: clearAux when mustClear, clearTeX below the debug level
\* an end handler that removes nothing
ClearedNothing == fs

\* lines 556-577 and 666-674: the files after clearAux and clearTeX
ClearedFiles ==
  [n \in DOMAIN fs |->
     IF mustClear /\ n[1] = outBase /\ n[2] \in auxExtensions THEN Absent
     ELSE IF infoLevel < infoDebug /\ n \in {preambleName, bodyName} THEN Absent
     ELSE fs[n]]

\* lines 686-690 and 666-674: the signal arrives, its goroutine calls
\* mainEnd, which clears the files
Signal ==
  /\ Alive /\ endPc["sig"] = "idle"
  /\ fs' = ClearedFiles
  /\ endPc' = [endPc EXCEPT !["sig"] = "exit"]
  /\ UNCHANGED <<cfgVars, mustBuildFormat, flagVars, err, procVars,
                 watchVars, recovered, exitStatus, nWrites, trace, preCall,
                 hist>>

\* lines 666-674: mainEnd, deferred by main, clears the files
EndClear ==
  /\ Alive /\ endPc["main"] = "clear"
  /\ fs' = ClearedFiles
  /\ endPc' = [endPc EXCEPT !["main"] = "exit"]
  /\ UNCHANGED <<cfgVars, mustBuildFormat, flagVars, err, procVars, watchVars,
                 recovered, exitStatus, nWrites, trace, preCall, hist>>

\* mainEnd without lines 676-679
exitCodeZero(e) == "0"

\* lines 676-681: status 1 after a recovered panic, 0 otherwise; recover
\* gives nil in the goroutine of the signal
exitCode(e) == IF e = "main" /\ recovered THEN "1" ELSE "0"

\* lines 676-681: os.Exit
EndExit(e) ==
  /\ Alive /\ endPc[e] = "exit"
  /\ ProcessEnds(exitCode(e))
  /\ UNCHANGED <<cfgVars, mustBuildFormat, fs, endPc, recovered, nWrites,
                 preCall, hist>>

(***************************************************************************)
(* The environment: the editor and the user                                *)
(***************************************************************************)
\* the editor saves the source while the tool watches it
EditorWrite ==
  /\ Alive /\ watching /\ nWrites < MaxWrites
  /\ sourceName \in watchedPaths
  /\ Len(events) < MaxQueue
  /\ nWrites' = nWrites + 1
  /\ \E text \in EditorTexts : fs' = [fs EXCEPT ![sourceName] = text]
  /\ events' = Append(events, "Write")
  /\ UNCHANGED <<cfgVars, mustBuildFormat, flagVars, err, procVars, watching,
                 endVars, trace, preCall, hist>>

\* an event that is not a write (chmod, rename, ...)
EditorOther ==
  /\ Alive /\ watching /\ Len(events) < MaxQueue
  /\ sourceName \in watchedPaths
  /\ events' = Append(events, "Chmod")
  /\ UNCHANGED <<cfgVars, mustBuildFormat, flagVars, err, fs, procVars,
                 watching, endVars, nWrites, trace, preCall, hist>>

\* the user deletes the format file, which is not a watched path, so the
\* watcher gets no event
UserRemovesFormat ==
  /\ Alive /\ watching /\ ~isFileMissing(formatName)
  /\ fs' = [fs EXCEPT ![formatName] = Absent]
  /\ events' = IF formatName \in watchedPaths /\ Len(events) < MaxQueue
               THEN Append(events, "Remove") ELSE events
  /\ UNCHANGED <<cfgVars, mustBuildFormat, flagVars, err, procVars, watching,
                 endVars, nWrites, trace, preCall, hist>>

(***************************************************************************)
(* The specification                                                       *)
(***************************************************************************)
Next ==
  \/ SetParametersCheck
  \/ \E p \in Procs : SplitBegin(p)
  \/ \E p \in Procs : SplitRead(p)
  \/ \E p \in Procs : SplitPreamble(p)
  \/ \E p \in Procs : SplitBody(p)
  \/ PrecompileCall
  \/ PrecompileEnd
  \/ StartupLoop
  \/ \E p \in Procs : CompileStart(p)
  \/ \E p \in Procs : CompileRunEnd(p)
  \/ \E p \in Procs : Relocate(p)
  \/ \E p \in Procs : ModifySync(p)
  \/ \E p \in Procs : compileEnd(p)
  \/ WatchStart
  \/ WatchEvent
  \/ WatchError
  \/ \E p \in Timers : TimerFire(p)
  \/ \E p \in Timers : recompileIf(p)
  \/ \E p \in Timers : recompileEnd(p)
  \/ \E p \in Timers : TimerExit(p)
  \/ Signal
  \/ EndClear
  \/ \E e \in Enders : EndExit(e)
  \/ EditorWrite
  \/ EditorOther
  \/ UserRemovesFormat

Spec == Init /\ [][Next]_vars

\* the steps of one goroutine, main (0) or the one of a timer
GoNext(p) ==
  \/ p = 0 /\ (SetParametersCheck \/ PrecompileCall \/ PrecompileEnd
                \/ StartupLoop \/ WatchStart)
  \/ SplitBegin(p) \/ SplitRead(p) \/ SplitPreamble(p) \/ SplitBody(p)
  \/ CompileStart(p) \/ CompileRunEnd(p) \/ Relocate(p) \/ ModifySync(p)
  \/ compileEnd(p)
  \/ p \in Timers /\ (TimerFire(p) \/ recompileIf(p) \/ recompileEnd(p)
                        \/ TimerExit(p))

\* The Go scheduler runs every goroutine that can run, a timer of
\* time.AfterFunc fires, and cmd.CombinedOutput (line 397) returns because
\* the compiler is started in batch mode: no goroutine, the watcher's and
\* the end handlers included, waits for ever while it has a step to do.
\* Nothing is assumed of the editor, the user or the signal.
FairSpec ==
  /\ Spec
  /\ \A p \in Procs : WF_vars(GoNext(p))
  /\ WF_vars(WatchEvent)
  /\ WF_vars(EndClear)
  /\ \A e \in Enders : WF_vars(EndExit(e))

(***************************************************************************)
(* Properties.                                                             *)
(***************************************************************************)
Has(seq, x) == \E k \in 1..Len(seq) : seq[k] = x
Count(seq, x) == Cardinality({k \in 1..Len(seq) : seq[k] = x})

\* the entries of a history that are starts of the compiler
CompilerStarts == {"preStart", "draftStart", "finalStart"}
CompileStarts == {"draftStart", "finalStart"}

\* goroutine p is between the start of its split and the return of its
\* compile: the part of a cycle that reads and writes files and runs the
\* compiler
InCycle(p) ==
  pc[p] \in {"splitTeX", "readFile", "writePreamble", "writeBody",
             "recompileIf", "precompile", "precompileRun", "loop", "compile",
             "compileRun", "relocate", "modifySync", "compileEnd"}

\* goroutine p has left compile (or the failed split) but has not ended
Leaving(p) == pc[p] \in {"recompileEnd", "done"}

Idle ==
  /\ Alive /\ watching /\ ~isCompiling /\ events = <<>>
  /\ \A p \in Timers : pc[p] = "free"

\* C1: at most one cycle is active at any time: the work of two cycles
\* (split, compiler invocations, relocation), the startup passes included,
\* never overlaps.
C1_OneCycleActive == Cardinality({p \in Procs : InCycle(p)}) <= 1

\* a cycle is at work while the goroutine of the cycle before it, which
\* has cleared isCompiling, has not ended yet
C1_Witness ==
  \E p \in Timers, q \in Timers :
    p # q /\ Leaving(p) /\ pc[q] = "compileRun"

\* C2: a write received while isCompiling is set starts no cycle, at once or
\* later: the number of cycles the watch loop has scheduled is the number
\* of writes it received with isCompiling clear.
C2_DroppedNotQueued == hist.cycles = hist.clear

\* a write was dropped, the cycle in flight has ended, and nothing is
\* pending
C2_Witness == Idle /\ hist.set >= 1 /\ hist.cycles = 1

\* C3: the writes of one burst (received while the timer of the first of
\* them is pending) schedule exactly one cycle.
C3_OneCyclePerBurst == hist.burst >= 2 => hist.burstCycles = 1

\* two writes came in one debounce window and the one cycle they gave has
\* run to its end
C3_Witness ==
  /\ hist.burst >= 2 /\ hist.cycles = 1
  /\ \E p \in Timers : pc[p] = "done" /\ Has(trace[p], "finalStart")

\* C4, as the specification states it: every cycle the watch loop started
\* clears isCompiling exactly once at its end, whether the split failed,
\* the compile failed or the cycle succeeded.
C4_ClearedOnceAtEnd ==
  \A p \in Timers : pc[p] \in {"done", "crashed"} => Count(trace[p], "clear") = 1

\* C5: in every cycle the split completes before any start of the
\* compiler, a precompile that runs ends before the document compile
\* starts, and relocation follows the end of the final compile.
C5_Order ==
  \A p \in Procs : \A k \in 1..Len(trace[p]) :
    /\ trace[p][k] \in CompilerStarts =>
         \E j \in 1..(k - 1) : trace[p][j] \in {"splitOk", "splitFail"}
    /\ (trace[p][k] \in CompileStarts /\ Has(trace[p], "preStart")) =>
         \E j \in 1..(k - 1) : trace[p][j] = "preEnd"
    /\ trace[p][k] = "preEnd" => k > 1 /\ trace[p][k - 1] = "preStart"
    /\ trace[p][k] = "relocate" =>
         k > 2 /\ trace[p][k - 1] = "compileEnd" /\ trace[p][k - 2] = "finalStart"

\* a startup cycle that split, precompiled, compiled and relocated
C5_Witness ==
  /\ Has(trace[0], "splitOk") /\ Has(trace[0], "preEnd")
  /\ Has(trace[0], "relocate")

\* C6, as the specification states it: every cycle, watch-triggered ones
\* included, that compiles the document with skip-header off while the
\* format file is absent has invoked precompile exactly once before (the
\* cleanup of a shutdown in progress, which removes the file, set aside).
C6_EveryCyclePrecompiles ==
  \A p \in Procs :
    (/\ pc[p] = "compileRun" /\ ~mustCompileAll /\ isFileMissing(formatName)
     /\ \A e \in Enders : endPc[e] = "idle")
      => Count(trace[p], "preStart") = 1

\* C6, amended: only the startup cycle precompiles.  When skip-header is
\* off and the format file is absent at the call of precompile, exactly one
\* precompile invocation ends before the first document compile of the
\* startup starts; a watch-triggered cycle never invokes precompile.
C6_OnlyStartupPrecompiles ==
  /\ \A p \in Timers : ~Has(trace[p], "preStart")
  /\ \A k \in 1..Len(trace[0]) :
       (trace[0][k] \in CompileStarts /\ ~preCall.skipAll /\ preCall.missing)
         => /\ Count(trace[0], "preStart") = 1
            /\ preCall.invocations = 1
            /\ \E j \in 1..(k - 1) : trace[0][j] = "preEnd"

\* a watch-triggered cycle compiles the body while the format file, built
\* at startup, is absent
C6_Witness ==
  /\ preCall.called /\ ~preCall.skipAll /\ preCall.missing
  /\ preCall.invocations = 1
  /\ \A e \in Enders : endPc[e] = "idle"
  /\ \E p \in Timers : pc[p] = "compileRun" /\ isFileMissing(formatName)

\* C7, as the specification states it: with skip-header on, precompile
\* never invokes the compiler, whatever the force flag is.
C7_SkipNeverBuilds ==
  (preCall.called /\ preCall.skipAll) => preCall.invocations = 0

\* C7, amended: with skip-header on, precompile invokes the compiler only
\* when the force flag is set (then once), whatever the state of the format
\* file.
C7_SkipBuildsOnlyForced ==
  (preCall.called /\ preCall.skipAll)
    => preCall.invocations = (IF preCall.force THEN 1 ELSE 0)

\* precompile was called with skip-header on, force off and no format file
C7_Witness ==
  /\ preCall.called /\ preCall.skipAll /\ ~preCall.force /\ preCall.missing
  /\ preCall.returned

\* C8: with skip-header off, precompile invokes the compiler once when the
\* force flag is set or the format file is absent, and not at all when the
\* file is present and the flag is not set.
C8_BuildsIffForcedOrMissing ==
  (preCall.called /\ ~preCall.skipAll)
    => preCall.invocations =
         (IF preCall.force \/ preCall.missing THEN 1 ELSE 0)

\* a forced build over a format file that exists has returned
C8_Witness ==
  /\ preCall.called /\ ~preCall.skipAll /\ preCall.force /\ ~preCall.missing
  /\ preCall.invocations = 1 /\ preCall.returned

\* C9: once precompile has returned, built or not, with success or not,
\* mustBuildFormat is false and stays false; precompile invokes the
\* compiler at most once, and no later cycle invokes it.
C9_ForceOnlyOnce ==
  /\ (preCall.called /\ preCall.returned) => ~mustBuildFormat
  /\ preCall.called => preCall.invocations <= 1
  /\ \A p \in Timers : InCycle(p) => ~mustBuildFormat
  /\ \A p \in Timers : ~Has(trace[p], "preStart")

\* a run with --precompile is in a watch-triggered cycle
C9_Witness ==
  /\ preCall.called /\ preCall.force /\ preCall.returned
  /\ \E p \in Timers : pc[p] = "compileRun"

\* C10: a cycle whose split failed invokes the compiler neither for the
\* format nor for the document.
C10_FailedSplitNoCompile ==
  \A p \in Procs :
    Has(trace[p], "splitFail") =>
      \A k \in 1..Len(trace[p]) : trace[p][k] \notin CompilerStarts

\* a watch-triggered cycle has ended after a failed split
C10_Witness ==
  \E p \in Timers :
    pc[p] = "done" /\ Has(trace[p], "splitFail") /\ ~isCompiling

\* C11, as the specification states it: a failed precompile does not abort;
\* main goes on to the compile step (which would fall back to a full
\* compile), so main is never in its end handler after a failed precompile
\* without a document compile started.
C11_FailedPrecompileGoesOn ==
  (preCall.called /\ preCall.result = "error" /\ pc[0] = "mainEnd")
    => \E k \in 1..Len(trace[0]) : trace[0][k] \in CompileStarts

\* C11, amended: a failed precompile ends the startup.  After it main is in
\* its end handler (or the process has ended), no document compile is ever
\* started, no fallback compile exists and no watch session begins.
C11_FailedPrecompileFatal ==
  (preCall.called /\ preCall.result = "error")
    => /\ pc[0] \in {"mainEnd", "exited"}
       /\ \A k \in 1..Len(trace[0]) : trace[0][k] \notin CompileStarts
       /\ ~watching
       /\ \A p \in Timers : pc[p] \in {"free", "exited"}

\* the precompile failed and the process has ended with status 1
C11_Witness ==
  /\ preCall.called /\ preCall.result = "error" /\ preCall.invocations = 1
  /\ exitStatus = "1"

\* C12, as the specification states it: a compiler error in a watch-triggered
\* cycle leaves the tool watching, and a compiler error in the startup cycle
\* is fatal: after a failed startup compile main is in its end handler
\* after a panic.
C12_StartupCompileErrorFatal ==
  /\ \A p \in Timers : Has(trace[p], "compileFail") => pc[p] # "crashed"
  /\ Has(trace[0], "compileFail") =>
       \/ pc[0] = "compileEnd"
       \/ pc[0] = "mainEnd" /\ recovered

\* C12, amended: an error of a document compile is never fatal.  In a
\* watch-triggered cycle the goroutine of the cycle ends normally and the
\* watcher stays registered; at startup the loop of passes is left, nothing
\* panics, and main goes on to the watch step (with --no-watch, to the
\* normal end, status 0).
C12_CompileErrorNotFatal ==
  /\ \A p \in Timers :
       Has(trace[p], "compileFail") =>
         /\ pc[p] \in {"compileEnd", "recompileEnd", "done"}
         /\ ~Has(trace[p], "panic")
         /\ watching
  /\ Has(trace[0], "compileFail") =>
       /\ pc[0] \in {"compileEnd", "watch", "mainEnd"}
       /\ pc[0] = "mainEnd" => mustNoWatch
       /\ ~Has(trace[0], "panic") /\ ~recovered

\* a startup compile failed and main is about to start the watcher
C12_Witness ==
  /\ pc[0] = "watch" /\ Has(trace[0], "compileFail") /\ ~mustNoWatch
  /\ err = "error" /\ ~isCompiling

\* C13: a split error (source missing, empty or unreadable after the retry,
\* no split marker) stops the cycle.  At startup it is fatal: main panics,
\* runs its end handler and the status is 1.  In a watch-triggered cycle
\* nothing panics, the goroutine ends after clearing isCompiling once, and
\* the watcher stays registered.
C13_SplitErrorFatalOnlyAtStartup ==
  /\ Has(trace[0], "splitFail") =>
       /\ pc[0] = "mainEnd" /\ recovered /\ Has(trace[0], "panic")
       /\ \A k \in 1..Len(trace[0]) : trace[0][k] \notin CompilerStarts
  /\ (pc[0] = "mainEnd" /\ endPc["main"] = "exit" /\ recovered /\ Alive) =>
       ENABLED (exitStatus' = "1" /\ EndExit("main"))
  /\ exitStatus = "1" => recovered
  /\ \A p \in Timers :
       Has(trace[p], "splitFail") =>
         /\ pc[p] \in {"writeBody", "recompileIf", "done"}
         /\ ~Has(trace[p], "panic")
         /\ watching
         /\ pc[p] = "done" => Count(trace[p], "clear") = 1

\* a watch-triggered cycle has ended on a source without split marker, and
\* the tool is alive and watching with isCompiling clear
C13_Witness ==
  /\ Alive /\ watching /\ ~isCompiling /\ pc[0] = "waitDone"
  /\ \E p \in Timers :
       /\ pc[p] = "done" /\ Has(trace[p], "splitFail")
       /\ Count(trace[p], "clear") = 1
       /\ FindIndex(fs[sourceName], 1) = 0

\* C14, as the specification states it: once the watcher is registered no
\* error ends the process; every step that ends it is the exit of the
\* handler of the shutdown signal, with status 0.
C14_OnlySignalEndsWatch ==
  [][(Alive /\ watching /\ exitStatus' # Running)
       => (endPc["sig"] = "exit" /\ exitStatus' = "0")]_vars

\* C15: the process ends with status 0 through the handler of the signal
\* and through the normal end of main, and with status 1 through the end
\* handler of main after an error before the watch session (a failed
\* registration of the watcher included): such an error leaves main in its
\* end handler with the panic recovered, and no watch session exists then.
C15_ExitStatus ==
  /\ [](recovered => (pc[0] \in {"mainEnd", "exited"} /\ ~watching))
  /\ []((pc[0] = "mainEnd" /\ Has(trace[0], "panic")) => recovered)
  /\ [][exitStatus' = "1" => (endPc["main"] = "exit" /\ recovered)]_vars
  /\ [][exitStatus' = "0" =>
          \/ endPc["sig"] = "exit"
          \/ endPc["main"] = "exit" /\ ~recovered]_vars
  /\ [][(endPc["sig"] = "idle" /\ exitStatus = Running
           /\ exitStatus' \in {"0", "1"})
          => exitStatus' = (IF recovered THEN "1" ELSE "0")]_vars

\* a run in watch mode whose precompile succeeded has ended with status 1:
\* the registration of the watcher failed
C15_Witness ==
  /\ exitStatus = "1" /\ ~mustNoWatch
  /\ preCall.called /\ preCall.result = "nil"

StartsOf(seq) == SelectSeq(seq, LAMBDA x : x \in CompileStarts)

\* C17: when the n >= 1 passes at start have all succeeded, main has
\* started the compiler on the document exactly n times, the first n-1
\* times as a draft and the last time not, and the output was moved to the
\* user's name only after the start of the last pass; while a draft pass is
\* running, nothing has been moved.
C17_StartupPasses ==
  /\ (pc[0] = "watch" /\ numCompilesAtStart >= 1 /\ i = numCompilesAtStart)
       => LET starts == StartsOf(trace[0])
          IN /\ Len(starts) = numCompilesAtStart
             /\ \A k \in 1..(numCompilesAtStart - 1) : starts[k] = "draftStart"
             /\ starts[numCompilesAtStart] = "finalStart"
             /\ Count(trace[0], "relocate") <= 1
             /\ \A k \in 1..Len(trace[0]) :
                  trace[0][k] = "relocate"
                    => \E j \in 1..(k - 1) : trace[0][j] = "finalStart"
  /\ (pc[0] \in {"compileRun", "relocate", "modifySync", "compileEnd"}
        /\ i < numCompilesAtStart - 1)
       => /\ ~Has(trace[0], "relocate")
          /\ ~Has(trace[0], "finalStart")
          /\ Len(StartsOf(trace[0])) = i + 1

\* two passes at start have succeeded and the second has moved the output
C17_Witness ==
  /\ pc[0] = "watch" /\ numCompilesAtStart = 2 /\ i = 2
  /\ Has(trace[0], "relocate") /\ Has(trace[0], "draftStart")

\* --skip-precompile is set and --precompile is not
SkipAllNoForce ==
  mustCompileAll /\ ~mustBuildFormat /\ (preCall.called => ~preCall.force)

\* C18: with --skip-precompile and without --precompile the compiler is
\* never run on the preamble; a cycle of the watch session, and the startup
\* with its one pass, starts the compiler exactly once, not as a draft; and
\* every start of the compiler is given the whole source under its
\* internal name, never the body.
C18_SkipAllCompilesWholeSource ==
  SkipAllNoForce
    => /\ preCall.called => preCall.invocations = 0
       /\ \A p \in Procs :
            /\ pc[p] # "precompileRun"
            /\ ~Has(trace[p], "preStart")
            /\ pc[p] = "compileRun"
                 => /\ local[p].input = File(inBase, "tex")
                    /\ local[p].input # File(inBase, "body.tex")
                    /\ inBase = inBaseOriginal
                         => local[p].input = File(inBaseOriginal, "tex")
       /\ \A p \in Timers :
            /\ ~Has(trace[p], "draftStart")
            /\ Count(trace[p], "finalStart") <= 1
            /\ (pc[p] \in {"compileRun", "relocate", "modifySync",
                           "compileEnd", "recompileEnd"})
                 => StartsOf(trace[p]) = <<"finalStart">>
       /\ (numCompilesAtStart = 1 /\ pc[0] = "watch" /\ i = 1)
            => StartsOf(trace[0]) = <<"finalStart">>
       /\ (numCompilesAtStart = 1 /\ pc[0] \in {"watch", "loop", "compile"})
            => Len(StartsOf(trace[0])) <= 1

\* a cycle of the watch session runs the compiler on the whole source,
\* whose internal name is not the user's
C18_Witness ==
  /\ SkipAllNoForce /\ inBase # inBaseOriginal
  /\ \E p \in Timers :
       /\ pc[p] = "compileRun"
       /\ local[p].input = File(inBase, "tex")
       /\ trace[p] = <<"splitOk", "finalStart">>

\* names with accents and spaces
BizarreNames ==
  { <<"E", " ", "d">>, <<" ", "E">>, <<"d", " ", " ", "E", "E">>, <<" ">> }

\* name has neither an accented character nor a space
IsPlain(name) == \A k \in 1..Len(name) : name[k] \notin {"E", " "}

\* goroutine p is at the end of a final compile that succeeded
FinalCompileDone(p) ==
  /\ pc[p] = "compileEnd" /\ local[p].cerr = "nil"
  /\ Has(trace[p], "finalStart")

\* C19: the internal name made of a name with accents and spaces has
\* neither; and when a final compile has succeeded on a disk without
\* failures, with an internal name that is not the user's, the pdf exists
\* under the user's name, the synctex too, and neither the pdf nor the
\* synctex remains under the internal name.
C19_NormalizedRoundTrip ==
  /\ \A name \in BizarreNames : IsPlain(normalizeName(name))
  /\ inBase # inBaseOriginal => IsPlain(inBase) /\ ~IsPlain(inBaseOriginal)
  /\ \A p \in Procs :
       (FinalCompileDone(p) /\ inBase # inBaseOriginal /\ ~faulty)
         => /\ fs[File(inBaseOriginal, "pdf")] = Built
            /\ fs[File(inBaseOriginal, "synctex")] # Absent
            /\ fs[File(inBase, "pdf")] = Absent
            /\ fs[File(inBase, "synctex")] = Absent
            /\ fs[File(outBase, "pdf")] = Absent
            /\ fs[File(outBase, "synctex")] = Absent

\* a cycle of the watch session ends a final compile that moved its output
\* from the internal name to the user's
C19_Witness ==
  /\ inBaseOriginal = <<"E", " ", "d">> /\ inBase = <<"e", "d">>
  /\ \E p \in Timers :
       /\ FinalCompileDone(p) /\ Has(trace[p], "relocate")
       /\ fs[File(inBaseOriginal, "pdf")] = Built
       /\ fs[File(inBase, "pdf")] = Absent

\* C20: when the copy of the pdf to the user's name has failed (at startup,
\* where the user has no pdf yet, the pdf is still absent under the user's
\* name after the relocation), the error was reported, the compile goes on
\* and the pdf is still there under the internal name.
C20_FailedCopyKeepsInternal ==
  (pc[0] = "modifySync" /\ Has(trace[0], "relocate")
     /\ isFileMissing(File(inBaseOriginal, "pdf")))
    => /\ Has(trace[0], "copyError")
       /\ ~Has(trace[0], "panic")
       /\ fs[File(outBase, "pdf")] = Built

\* goroutine p takes a step of the part of compile that follows the run of
\* the compiler
AfterPassStep(p) ==
  /\ pc[p] \in {"relocate", "modifySync"}
  /\ pc'[p] \in {"modifySync", "compileEnd"}
  /\ pc'[p] # pc[p]

\* the pdf and the synctex of the user's name
UserPdf == File(inBaseOriginal, "pdf")
UserSync == File(inBaseOriginal, "synctex")

StartupSplitDone ==
  /\ pc[0] = "precompile" /\ trace[0] = <<"splitOk">>
  /\ (mustBuildFormat \/ ~mustCompileAll)
  /\ \A e \in Enders : endPc[e] = "idle"

\* the number of lines of the source before the line of the split marker
LinesBeforeMarker(text) == FindIndex(text, 1) - 1

\* C22: in the body file the padding newlines after the format line plus
\* the lines moved from the preamble are as many as the lines the source
\* has before the split marker, so the marker keeps its line number.
C22_BodyKeepsLineNumbers ==
  StartupSplitDone
    => Count(fs[bodyName], "nl") + Count(fs[bodyName], "f")
         = LinesBeforeMarker(fs[sourceName])

\* the lines of a split file that come from the source
SourceLines(text) == SelectSeq(text, LAMBDA l : l \in {"p", "f", "M"})

\* C23: after a split that succeeded, with at the first match of the
\* pattern in the source: the preamble file is the source before at
\* followed by the dump (with xelatex: the two lines of xeFirstLine, the
\* lines before at that are not moved, the dump); the body file ends with
\* the source from at on; and the source lines of the two files together
\* are the lines of the source, each once, the moved ones in the body.
C23_SplitKeepsEverySourceLine ==
  StartupSplitDone
    => LET src == fs[sourceName]
           at == CHOOSE k \in 1..Len(src) :
                   src[k] = "M" /\ \A j \in 1..(k - 1) : src[j] # "M"
           before == SubSeq(src, 1, at - 1)
           rest == SubSeq(src, at, Len(src))
           pre == fs[preambleName]
           body == fs[bodyName]
           kept == SelectSeq(before, LAMBDA l : l # "f")
           moved == SelectSeq(before, LAMBDA l : l = "f")
       IN /\ \E k \in 1..Len(src) : src[k] = "M"
          /\ pre[Len(pre)] = "dump"
          /\ ~mustUseXe => pre = before \o <<"dump">>
          /\ mustUseXe => pre = <<"x1", "x2">> \o kept \o <<"dump">>
          /\ Len(body) >= Len(rest)
          /\ SubSeq(body, Len(body) - Len(rest) + 1, Len(body)) = rest
          /\ body[1] = "%&"
          /\ ~mustUseXe => SourceLines(pre) \o SourceLines(body) = src
          /\ mustUseXe => /\ SourceLines(pre) = kept
                          /\ SourceLines(body) = moved \o rest

\* the split of a source with two matches, and the split with xelatex of a
\* source with a line to move
C23_Witness ==
  /\ StartupSplitDone
  /\ \/ fs[sourceName] = <<"p", "M", "p", "M">>
        /\ fs[bodyName] = <<"%&", "nl", "M", "p", "M">>
     \/ mustUseXe /\ fs[sourceName] = <<"f", "M">>
        /\ fs[bodyName] = <<"%&", "nl", "f", "M">>

C25_SignalCleansAndExitsZero ==
  /\ [](Alive /\ endPc["sig"] = "idle" => ENABLED Signal)
  /\ [][(endPc["sig"] = "idle" /\ endPc'["sig"] # "idle")
         => /\ infoLevel < infoDebug
                 => isFileMissing(preambleName)' /\ isFileMissing(bodyName)'
            /\ mustClear => isFileMissing(formatName)'
            /\ UNCHANGED <<pc, isCompiling, exitStatus>>]_vars
  /\ [](Alive /\ endPc["sig"] = "exit"
          => ENABLED (EndExit("sig") /\ exitStatus' = "0"))
  /\ [][(Alive /\ endPc["sig"] = "exit" /\ exitStatus' \notin {Running, "0"})
         => \/ exitStatus' = "1" /\ endPc["main"] = "exit" /\ recovered
            \/ exitStatus' = "2"]_vars

\* the signal has come while a cycle of the watch session runs the
\* compiler; the split files are gone and the cycle is still there
C25_Witness ==
  /\ Alive /\ endPc["sig"] = "exit"
  /\ \E p \in Timers : pc[p] = "compileRun"
  /\ isCompiling
  /\ isFileMissing(preambleName) /\ isFileMissing(bodyName)

\* C26: when the process has ended through its end handler (status 0 or
\* 1) with an info level below debug, the preamble file and the body file
\* do not exist.
C26_NoSplitFilesAfterEnd ==
  (exitStatus \in {"0", "1"} /\ infoLevel < infoDebug)
    => isFileMissing(preambleName) /\ isFileMissing(bodyName)

\* a step in which an end handler clears the files
CleanupStep ==
  \E e \in Enders : endPc[e] # "exit" /\ endPc'[e] = "exit"

\* C27 as stated: no cleanup at the end of the process removes the format
\* file.
C27_FormatKeptAtEnd ==
  [][(CleanupStep /\ ~isFileMissing(formatName))
       => ~isFileMissing(formatName)']_vars

\* C27, amended: with the default --clear=auto the files are cleared at
\* the end exactly in watch mode; the cleanup of the end handler removes
\* the format file when mustClear and leaves it as it is otherwise; and
\* nothing else in the tool removes it.
C27_FormatRemovedWhenClearing ==
  /\ [](mustClear <=> ~mustNoWatch)
  /\ [][CleanupStep
         => fs'[formatName] = IF mustClear THEN Absent ELSE fs[formatName]]_vars
  /\ [][(~isFileMissing(formatName) /\ isFileMissing(formatName)')
         => \/ CleanupStep /\ mustClear
            \/ UNCHANGED <<pc, endPc>>]_vars

\* a watch session whose precompile built the format has ended with status
\* 0 and the format file is gone
C27_Witness ==
  /\ exitStatus = "0" /\ mustClear /\ ~mustNoWatch
  /\ preCall.called /\ preCall.invocations = 1 /\ preCall.result = "nil"
  /\ isFileMissing(formatName)

\* the synctex text with its entry k, a reference to the internal file,
\* made a reference to the user's source
Rewritten(text, k) == [text EXCEPT ![k] = "user"]

\* C28: the step of compile that writes the synctex of the user's name
\* changes the file only when the internal name is not the user's and the
\* file exists, and then the new text is the old one with exactly one
\* reference to the internal file replaced.
C28_SyncRewrittenOnlyWhenNormalized ==
  [][\A p \in Procs :
       (pc[p] = "modifySync" /\ pc'[p] = "compileEnd"
          /\ fs'[UserSync] # fs[UserSync])
         => /\ inBase # inBaseOriginal
            /\ ~isFileMissing(UserSync)
            /\ \E k \in 1..Len(fs[UserSync]) :
                 /\ fs[UserSync][k] = "internal"
                 /\ fs'[UserSync] = Rewritten(fs[UserSync], k)]_vars

\* goroutine p is writing a split file, running the compiler or moving
\* the output
HasSideEffect(p) ==
  pc[p] \in {"writePreamble", "writeBody", "precompileRun", "compileRun",
             "relocate", "modifySync"}

\* C29 as stated: whenever a goroutine is writing a split file, running
\* the compiler or moving the output, isCompiling is set.
C29_FlagSetDuringSideEffects ==
  \A p \in Procs : HasSideEffect(p) => isCompiling

\* C29, amended: in a cycle of the watch session isCompiling is set from
\* the moment the write event is accepted until compileEnd, so in every
\* state in which the cycle splits, compiles or moves the output; at
\* startup it is set during the compile passes only: the split and the
\* precompile of main run with isCompiling not set.
C29_FlagSetDuringWatchCycles ==
  /\ \A p \in Timers :
       pc[p] \in {"timer", "splitTeX", "readFile", "writePreamble",
                  "writeBody", "recompileIf", "compile", "compileRun",
                  "relocate", "modifySync", "compileEnd"} => isCompiling
  /\ pc[0] \in {"compile", "compileRun", "relocate", "modifySync",
                "compileEnd"} => isCompiling
  /\ pc[0] \in {"SetParameters", "splitTeX", "readFile", "writePreamble",
                "writeBody", "precompile", "precompileRun"} => ~isCompiling

\* a cycle of the watch session is moving its output
C29_Witness ==
  /\ watching /\ isCompiling
  /\ \E p \in Timers : pc[p] = "relocate" /\ Has(trace[p], "splitOk")

\* C30: the number of newlines splitTeX is about to write after the
\* format line of the body is at least 1, and the body file of a split
\* that succeeded has at least one of them.
C30_PaddingAtLeastOne ==
  /\ \A p \in Procs :
       pc[p] = "writeBody"
         => PadLines(mustUseXe, Adapted(p)[1], Adapted(p)[2]) >= 1
  /\ StartupSplitDone => Count(fs[bodyName], "nl") >= 1

\* goroutine p takes a step of the read loop of splitTeX
ReadStep(p) ==
  /\ pc[p] = "readFile" /\ exitStatus' # "0"
  /\ (pc'[p] # "readFile" \/ local'[p] # local[p])

\* the source file as a read sees it
SourceIsEmpty == isFileMissing(sourceName) \/ fs[sourceName] = <<>>

\* C31: one call of splitTeX reads the source at most twice.  The count
\* of empty reads done is never above 1; a read is
\* followed by a second one only if it was the first and saw an empty
\* file; a second read that sees an empty file ends the split with a
\* failure and no file written; a read that sees a text goes on to the
\* split with that text.
C31_SourceReadAtMostTwice ==
  /\ [](\A p \in Procs :
          /\ local[p].attempt \in {0, 1}
          /\ pc[p] \in {"writePreamble", "writeBody"}
               => Len(local[p].texdata) > 0 /\ local[p].texdata # NoText)
  /\ [][\A p \in Procs :
          ReadStep(p)
            => /\ pc'[p] = "readFile"
                    => /\ local[p].attempt = 0 /\ local'[p].attempt = 1
                       /\ SourceIsEmpty
               /\ (local[p].attempt = 1 /\ SourceIsEmpty)
                    => /\ pc'[p] \in {"recompileIf", "mainEnd"}
                       /\ Has(trace'[p], "splitFail")
                       /\ fs' = fs
               /\ ~SourceIsEmpty
                    => /\ pc'[p] = "writePreamble"
                       /\ local'[p].texdata = fs[sourceName]]_vars

\* a cycle of the watch session has read the empty source twice and its
\* split has failed
C31_Witness ==
  /\ fs[sourceName] = <<>>
  /\ \E p \in Timers :
       /\ pc[p] = "recompileIf" /\ ~local[p].ok
       /\ trace[p] = <<"splitFail">>

\* preambles with lines of both kinds, in several orders
Preambles ==
  { <<>>, <<"p">>, <<"f">>, <<"q", "p">>, <<"g", "f">>,
    <<"p", "f", "q", "g">>, <<"f", "p", "g", "q">>, <<"g", "q", "f">> }

\* text is made of the lines of kept and of moved, each sequence in its
\* order, the lines of moved being those that name a font package
RECURSIVE IsSplitOf(_, _, _)
IsSplitOf(text, kept, moved) ==
  IF text = <<>> THEN kept = <<>> /\ moved = <<>>
  ELSE IF Head(text) \in {"f", "g"}
  THEN /\ moved # <<>> /\ Head(moved) = Head(text)
       /\ IsSplitOf(Tail(text), kept, Tail(moved))
  ELSE /\ kept # <<>> /\ Head(kept) = Head(text)
       /\ IsSplitOf(Tail(text), Tail(kept), moved)

\* C32: without xelatex adaptPreamble gives back the preamble and moves
\* nothing.  With xelatex the new preamble is xeFirstLine followed by the
\* lines that name no font package, in their order, and the lines that
\* name one are the moved lines, in their order; and the body file of the
\* split has the moved lines after the padding and before the text of the
\* body.
C32_AdaptPreamble ==
  /\ \A pre \in Preambles :
       /\ adaptPreamble(FALSE, pre) = <<pre, <<>>>>
       /\ LET r == adaptPreamble(TRUE, pre)
          IN /\ Len(r[1]) >= 2 /\ SubSeq(r[1], 1, 2) = <<"x1", "x2">>
             /\ IsSplitOf(pre, SubSeq(r[1], 3, Len(r[1])), r[2])
  /\ StartupSplitDone
       => LET src == fs[sourceName]
              at == FindIndex(src, 1)
              before == SubSeq(src, 1, at - 1)
              rest == SubSeq(src, at, Len(src))
              body == fs[bodyName]
              pad == Count(body, "nl")
              inBody == SubSeq(body, 2 + pad, Len(body))
              inPre == SubSeq(fs[preambleName], IF mustUseXe THEN 3 ELSE 1,
                              Len(fs[preambleName]) - 1)
          IN /\ SubSeq(body, 1, 1 + pad) = <<"%&">> \o [k \in 1..pad |-> "nl"]
             /\ Len(inBody) >= Len(rest)
             /\ SubSeq(inBody, Len(inBody) - Len(rest) + 1, Len(inBody)) = rest
             /\ mustUseXe
                  => IsSplitOf(before, inPre,
                               SubSeq(inBody, 1, Len(inBody) - Len(rest)))
             /\ ~mustUseXe => inPre = before /\ inBody = rest

\* the split with xelatex of a source whose preamble is one font line
C32_Witness ==
  /\ StartupSplitDone /\ mustUseXe
  /\ fs[sourceName] = <<"f", "M">>
  /\ fs[preambleName] = <<"x1", "x2", "dump">>
  /\ SubSeq(fs[bodyName], Len(fs[bodyName]) - 1, Len(fs[bodyName])) = <<"f", "M">>

\* the watcher takes the first event of its queue
TakesEvent == events # <<>> /\ events' = Tail(events) /\ Alive'

\* a timer for recompile is started
StartsTimer == \E p \in Timers : pc[p] = "free" /\ pc'[p] = "timer"

\* C33: an event that is not a write starts no timer and leaves
\* isCompiling and the goroutines as they are; a timer is started, and
\* isCompiling set during the watch session, only when the watcher takes
\* a write event; the one watched path is the user's source file, and an
\* event comes into the queue only with a change of that file.
C33_OnlyWritesOfSourceStartCycles ==
  /\ [][(TakesEvent /\ Head(events) # "Write")
         => UNCHANGED <<isCompiling, isRecompiling, pc, local, fs>>
            /\ hist'.cycles = hist.cycles]_vars
  /\ [][StartsTimer => (TakesEvent /\ Head(events) = "Write")]_vars
  /\ [][(watching /\ ~isCompiling /\ isCompiling')
         => (TakesEvent /\ Head(events) = "Write" /\ StartsTimer)]_vars
  /\ [](watchedPaths = {File(inBaseOriginal, "tex")})
  /\ [][Len(events') > Len(events)
         => /\ \A f \in DOMAIN fs :
                 f # File(inBaseOriginal, "tex") => fs'[f] = fs[f]
            /\ UNCHANGED <<pc, isCompiling>>]_vars

\* the tool is idle after a cycle, an event that is not a write is the
\* next one of the queue, and the watcher takes it without starting anything
C33_Witness ==
  /\ Alive /\ watching /\ ~isCompiling /\ FreeTimers = Timers
  /\ hist.cycles = 1
  /\ events # <<>> /\ Head(events) = "Chmod"
  /\ ENABLED (WatchEvent /\ UNCHANGED <<isCompiling, pc>>)

\* a step of a draft pass of the startup loop: the run of the compiler or
\* one of the two blocks of compile after it
DraftPassStep ==
  /\ Draft(0)
  /\ pc[0] \in {"compileRun", "relocate", "modifySync"}
  /\ pc'[0] # pc[0]

\* C34: a draft pass, successful or not, creates, modifies and removes
\* neither the pdf nor the synctex under the user's name.
C34_DraftLeavesUserArtifacts ==
  [][DraftPassStep
       => (fs'[UserPdf] = fs[UserPdf] /\ fs'[UserSync] = fs[UserSync])]_vars

\* the preamble file and the body file a split of text writes
ExpectedSplit(text) ==
  LET at == FindIndex(text, 1)
      ad == adaptPreamble(mustUseXe, SubSeq(text, 1, at - 1))
  IN <<ad[1] \o <<"dump">>,
       <<"%&">> \o Repeat(PadLines(mustUseXe, ad[1], ad[2])) \o ad[2]
         \o SubSeq(text, at, Len(text))>>

\* what the compiler is given is made of the source as it is now: the
\* split files are the split of it or, when the whole file is compiled,
\* the working copy is a copy of it
CompiledIsCurrent ==
  IF mustCompileAll
  THEN fs[File(inBase, "tex")] = fs[sourceName]
  ELSE <<fs[preambleName], fs[bodyName]>> = ExpectedSplit(fs[sourceName])

\* the tool waits for a write, with nothing pending and no end handler
\* running, and the source is one that can be split
IdleOnGoodSource ==
  /\ Idle /\ \A e \in Enders : endPc[e] = "idle"
  /\ FindIndex(fs[sourceName], 1) > 0

C36_FailedPassEndsStartup ==
  /\ [](\A k \in 1..Len(trace[0]) :
          trace[0][k] = "compileFail"
            => \A j \in (k + 1)..Len(trace[0]) :
                 trace[0][j] \notin CompilerStarts)
  /\ [][(pc[0] = "compileEnd" /\ local[0].cerr # "nil"
           /\ pc'[0] # pc[0] /\ Alive')
         => pc'[0] = "watch" /\ i' = i]_vars
  /\ []((Alive /\ pc[0] = "watch" /\ ~mustNoWatch)
         => ENABLED (WatchStart /\ watching'))

\* the only pass of the startup failed (its error is still in err, no
\* cycle has run since) and the tool watches the source
C36_Witness ==
  /\ Alive /\ watching /\ ~mustNoWatch
  /\ pc[0] = "waitDone" /\ FreeTimers = Timers
  /\ hist.cycles = 0 /\ nWrites = 0
  /\ err # "nil" /\ i = 0 /\ numCompilesAtStart = 1

\* the watch session with isCompiling clear and no cycle pending: no
\* timer set, no cycle running, no write event waiting in the queue
Quiet ==
  /\ Alive /\ watching /\ ~isCompiling
  /\ \A p \in Timers : pc[p] \in {"free", "done"}
  /\ ~Has(events, "Write")

\* a goroutine of the tool, its watcher or an end handler has a step to do
ToolCanStep ==
  \/ \E p \in Procs : ENABLED GoNext(p)
  \/ ENABLED WatchEvent
  \/ ENABLED EndClear
  \/ \E e \in Enders : ENABLED EndExit(e)

\* C37 as stated: in the watch session, when no shutdown was asked for
\* and the tool has come to rest (no write is waiting and none of its
\* goroutines has a step to do), isCompiling is clear and no cycle is
\* pending.
C37_AtRestIsQuiet ==
  (watching /\ endPc["sig"] = "idle" /\ ~ToolCanStep) => Quiet

\* C38: the names and the argument lists are what SetParameters made of
\* the configuration and no step changes them: inBase, outBase, the
\* arguments of the precompile and the list compileOptions shows stay the
\* same; every run of the precompile gets the arguments of the start,
\* every draft pass those of a final pass followed by the draft flag, and
\* every final pass, after a draft pass too, the arguments of the start
\* without the draft flag.
C38_NamesAndArgumentsFixed ==
  /\ [][/\ UNCHANGED <<inBaseOriginal, inBase, outBase, precompileOptions>>
         /\ compileOptions'.list = compileOptions.list]_vars
  /\ [](/\ compileOptions.list = CompileOptionsAtStart
         /\ precompileOptions = PrecompileOptionsAtStart
         /\ (preCall.called /\ preCall.invocations = 1)
              => preCall.argv = PrecompileOptionsAtStart
         /\ \A p \in Procs :
              pc[p] = "compileRun"
                => local[p].argv =
                     (IF Draft(p)
                      THEN CompileOptionsAtStart \o <<"-draftmode">>
                      ELSE CompileOptionsAtStart))
  /\ [](\A p \in Procs :
          (pc[p] = "compileRun" /\ ~Draft(p))
            => ~Has(local[p].argv, "-draftmode"))

\* the final pass of a start with two passes runs after the draft pass
\* wrote its flag into the spare element of the array of compileOptions
C38_Witness ==
  /\ Alive /\ pc[0] = "compileRun" /\ ~Draft(0) /\ i = 1
  /\ trace[0][Len(trace[0])] = "finalStart"
  /\ Has(trace[0], "draftStart")
  /\ compileOptions.spare = <<"-draftmode">>
  /\ local[0].argv = CompileOptionsAtStart

====
